---- MODULE Spec2Model ----
(***************************************************************************)
(* Paginated result aggregation of crm5_bo.CRM5BackofficeAdmin:            *)
(* _fetch_page, _fetch_all, _fetch_all_parallel_search_max and             *)
(* _fetch_all_parallel, run by a caller against a frozen paginated         *)
(* backend.                                                                *)
(*                                                                         *)
(* A Python dict is a function over its key set (get_params, paging) or,   *)
(* where the code depends on insertion order (pages_dict), a sequence of   *)
(* [key, val] entries in insertion order.  An optional argument is <<>>    *)
(* (None) or <<v>>.                                                        *)
(***************************************************************************)
EXTENDS Integers, Sequences, FiniteSets, TLC

\* ------------------------------------------------------------- bounds
\* Items held by the backend of the aggregation specification.
MaxItems == 6
\* Largest page size the server grants / the caller asks for.
MaxSize == 2
\* Largest page number the backend may be set to fail on (with an error
\* status, or with a null content).
MaxFailPage == 3
\* Largest explicit thread_count the caller passes.
MaxThreads == 2
\* Items held by the backend of the bounds-probe specification.
MaxProbeItems == 1010
\* The larger of the two page sizes of the bounds-probe specification, and
\* the page size of the paged-scenario specification.
ProbeSize == 10
\* Items held by the backend of the paged-scenario specification.
MaxPagedItems == 45
\* Items held by the backend of the any-response specification.
MaxBisectItems == 12
\* Items held by the deep backend of the bounds-probe specification: with
\* pages of 1 item, every page the exponential loop can reach (10^9 at most)
\* has more after it.
DeepItems == 2000000000
\* Pages a walk is followed for: the walk of the deep backend has no end, and
\* is explored up to this page.
MaxWalkPage == 12

\* -------------------------------------------------- program constants
default_page_size == 100
default_thread_count == 6
multiplier == 10
probe_iterations == 10
\* None as the value of paging.total (a declared total is never negative).
None == -1

\* ------------------------------------------------------------ helpers
Min(a, b) == IF a <= b THEN a ELSE b

\* d[k] = v on a dict held as a function.
DictSet(d, k, v) == [x \in (DOMAIN d) \cup {k} |-> IF x = k THEN v ELSE d[x]]

\* The empty dict {}.
EmptyDict == [x \in {} |-> 0]

\* The merge assigning each page's items instead of extending with them:
\* the last page is all that is left.
ConcatKeepsLast(ss) == IF ss = <<>> THEN <<>> ELSE ss[Len(ss)]

RECURSIVE Concat(_)
\* The concatenation of a sequence of sequences (list.extend, page by page).
Concat(ss) == IF ss = <<>> THEN <<>> ELSE Head(ss) \o Concat(Tail(ss))

\* ------------------------------------------------------------ backend
\* The page the server serves for a query: no page parameter means page 1.
ServedPage(params) == IF "page" \in DOMAIN params THEN params["page"] ELSE 1

\* The page size the server applies: the requested size, clamped to its own.
ServedSize(b, params) == Min(params["size"], b.maxSize)

\* Number of items on page p when n items are split into pages of s.
ItemCount(n, s, p) ==
    IF p < 1 \/ (p - 1) * s >= n THEN 0 ELSE Min(s, n - (p - 1) * s)

\* Items of page p: the records numbered (p-1)*s+1 .. (p-1)*s+count.
PageItems(n, s, p) == [i \in 1..ItemCount(n, s, p) |-> (p - 1) * s + i]

\* paging.total as the server declares it: absent, exact, or off by one.
DeclaredTotal(b) ==
    CASE b.total = "absent" -> None
      [] b.total = "exact" -> b.items
      [] OTHER -> b.items + 1

\* The HTTP response to one page request.  zero is the server's treatment of
\* a page number below 1, which the API leaves open: rejected, or empty.
\* content_null says the envelope's content is null (content is then not a
\* list; the field holds <<>> in its place).
Respond(b, params, zero) ==
    LET p == ServedPage(params)
        s == ServedSize(b, params)
    IN  IF p \in b.failing \/ (p < 1 /\ zero = "error")
        THEN [status |-> 500, content_null |-> FALSE, content |-> <<>>,
              paging |-> [size |-> 0, total |-> None, has_more |-> FALSE]]
        ELSE IF p \in b.nulls
        THEN [status |-> 200, content_null |-> TRUE, content |-> <<>>,
              paging |-> [size |-> 0, total |-> None, has_more |-> FALSE]]
        ELSE [status |-> 200, content_null |-> FALSE,
              content |-> PageItems(b.items, s, p),
              paging |-> [size |-> ItemCount(b.items, s, p),
                          total |-> DeclaredTotal(b),
                          has_more |-> (p >= 1 /\ p * s < b.items)]]

ZeroPageModes == {"error", "empty"}

\* ------------------------------------------------------- _fetch_page
\* get_params as _fetch_page leaves it before the request goes out.
fetch_page_params(get_params, page_num) ==
    LET sized == IF "size" \in DOMAIN get_params THEN get_params
                 ELSE DictSet(get_params, "size", default_page_size)
    IN  IF page_num # <<>> THEN DictSet(sized, "page", page_num[1]) ELSE sized

\* _make_request without its status check: every response is handed back.
make_request_unchecked(resp) == FALSE

\* _make_request: a status other than 200 raises CRM5APIError.
make_request_raises(resp) == resp.status # 200

\* _fetch_page with the status check of _make_request only: a null content
\* is handed on as a page.
fetch_page_raises_on_status(resp) == make_request_raises(resp)

\* _fetch_page raises CRM5APIError: _make_request raised, or the envelope it
\* then read has a null content (line 211).
fetch_page_raises(resp) == make_request_raises(resp) \/ resp.content_null

\* _fetch_page without the default: the response's paging as it came.
fetch_page_data_as_sent(resp) == [content |-> resp.content, paging |-> resp.paging]

\* req_data as _fetch_page returns it: total defaults to paging.size.
fetch_page_data(resp) ==
    [content |-> resp.content,
     paging |-> IF resp.paging["total"] = None
                THEN DictSet(resp.paging, "total", resp.paging["size"])
                ELSE resp.paging]

\* ------------------------------------------------------------- state
VARIABLES
    backend,        \* the frozen backend: items, maxSize, total, failing, nulls
    search_params,  \* the caller's query mapping argument: <<>> or <<dict>>
    script,         \* the aggregator calls the caller makes, in order
    results,        \* what each finished call returned or raised
    pc,             \* position of the main thread
    get_params,     \* the query dict the running call works on
    reqLog,         \* requests sent during the current call, in order
    req_data,       \* _fetch_all / _fetch_all_parallel: the result being built
    curr_page,      \* _fetch_all: page of the walk
    pages_dict,     \* pages by number, in insertion order
    page,           \* search_max: page being probed
    iter,           \* search_max: iterations of the exponential loop done
    lower_bound,    \* search_max: binary-search bounds
    upper_bound,
    sm_ret,         \* what search_max returned: <<page>> or <<page, size>>
    max_page,       \* _fetch_all_parallel: unpacked probe result
    last_page_size,
    thread_count,   \* _fetch_all_parallel: max_workers of the pool
    futures         \* the pool's futures, in submission order

vars == <<backend, search_params, script, results, pc, get_params, reqLog,
          req_data, curr_page, pages_dict, page, iter, lower_bound,
          upper_bound, sm_ret, max_page, last_page_size, thread_count,
          futures>>

\* Locals of a call that is not running.
probeIdle == <<pages_dict, page, iter, lower_bound, upper_bound, sm_ret>>
poolIdle == <<max_page, last_page_size, thread_count, futures>>
walkIdle == <<req_data, curr_page>>
fixed == <<backend, search_params, script>>

BlankData == [content |-> <<>>, paging |-> [pages |-> 0, total |-> 0]]

\* The locals as they are outside any call.
ClearLocals ==
    /\ req_data' = BlankData
    /\ curr_page' = 0
    /\ pages_dict' = <<>>
    /\ page' = 0
    /\ iter' = 0
    /\ lower_bound' = 0
    /\ upper_bound' = 0
    /\ sm_ret' = <<>>
    /\ max_page' = 0
    /\ last_page_size' = 0
    /\ thread_count' = 0
    /\ futures' = <<>>

\* What the caller has of a finished call: how it ended, the value returned,
\* the requests it sent, the query dict as the call left it, and the pool
\* size the call ran with (0 for a call without a pool).
Outcome(status, value, log, params) ==
    [status |-> status, data |-> value, log |-> log, params |-> params,
     thread_count |-> thread_count]

\* The call returns value to the caller.
Returns(value, log, params) ==
    /\ results' = Append(results, Outcome("ok", value, log, params))
    /\ pc' = "idle"
    /\ ClearLocals

\* The call ends in exception exc: the caller gets no value.
Raises(exc, log, params) ==
    /\ results' = Append(results, Outcome(exc, BlankData, log, params))
    /\ pc' = "idle"
    /\ ClearLocals

\* The call the caller makes next, "" when the script is over.
NextCall == IF Len(results) < Len(script) THEN script[Len(results) + 1] ELSE ""

\* The dict a call starts on: the caller's mapping, or a new {} for None.
\* A mapping the caller passes again carries what earlier calls wrote.
ArgParams ==
    IF search_params = <<>> THEN EmptyDict
    ELSE IF results = <<>> THEN search_params[1] ELSE get_params

\* One logged request: the query sent, the page_num argument of the
\* _fetch_page call that sent it, the phase it belongs to, whether the
\* status was 200 and whether the content was null.
LogEntry(params, page_num, by, resp) ==
    [params |-> params, page_num |-> page_num, by |-> by,
     ok |-> resp.status = 200, content_null |-> resp.content_null]

\* -------------------------------------------------------- _fetch_all
\* The walk giving up after five pages.
walk_ends_capped(data, n) == data.paging["has_more"] = FALSE \/ n >= 5

\* Lines 247 and 267: the walk ends with page n when the page has no more
\* after it, and on nothing else.
walk_ends(data, n) == data.paging["has_more"] = FALSE

\* The walk going on with the size the caller asked for.
keep_requested_size(gp, page_size) == gp

\* Lines 253-254: the size of the later requests is the first page's size.
pin_page_size(gp, page_size) == DictSet(gp, "size", page_size)

\* Lines 232-254: the first page, fetched without a page number.
fetch_all_first ==
    /\ pc = "idle"
    /\ NextCall = "fetch_all"
    /\ \E zero \in ZeroPageModes :
         LET gp == fetch_page_params(
                     IF "size" \in DOMAIN ArgParams THEN ArgParams
                     ELSE DictSet(ArgParams, "size", default_page_size), <<>>)
             resp == Respond(backend, gp, zero)
             data == fetch_page_data(resp)
             page_size == data.paging["size"]
             log == <<LogEntry(gp, <<>>, "walk", resp)>>
         IN  /\ reqLog' = log
             /\ IF fetch_page_raises(resp)
                THEN /\ Raises("CRM5APIError", log, gp)
                     /\ get_params' = gp
                ELSE IF walk_ends(data, 1)
                THEN /\ Returns(data, log, gp)
                     /\ get_params' = gp
                ELSE /\ get_params' = pin_page_size(gp, page_size)
                     /\ req_data' = data
                     /\ curr_page' = 2
                     /\ pc' = "fa_loop"
                     /\ UNCHANGED <<results, probeIdle, poolIdle>>
    /\ UNCHANGED fixed

\* Lines 257-278: one iteration of the walk, and the return after the last.
fetch_all_next ==
    /\ pc = "fa_loop"
    /\ curr_page <= MaxWalkPage      \* bound of the exploration, not of the code
    /\ \E zero \in ZeroPageModes :
         LET gp == fetch_page_params(get_params, <<curr_page>>)
             resp == Respond(backend, gp, zero)
             data == fetch_page_data(resp)
             content == req_data.content \o data.content
             log == Append(reqLog, LogEntry(gp, <<curr_page>>, "walk", resp))
         IN  /\ reqLog' = log
             /\ get_params' = gp
             /\ IF fetch_page_raises(resp)
                THEN Raises("CRM5APIError", log, gp)
                ELSE IF walk_ends(data, curr_page)
                THEN Returns([content |-> content,
                              paging |-> DictSet(DictSet(DictSet(req_data.paging,
                                  "has_more", FALSE),
                                  "pages", curr_page),
                                  "total", Len(content))], log, gp)
                ELSE /\ req_data' = [req_data EXCEPT !.content = content]
                     /\ curr_page' = curr_page + 1
                     /\ UNCHANGED <<results, pc, probeIdle, poolIdle>>
    /\ UNCHANGED fixed

\* ------------------------------------------------------- pages_dict
Keys(d) == {d[i].key : i \in DOMAIN d}

\* d[k]; only read where k is a key.
Lookup(d, k) == d[CHOOSE i \in DOMAIN d : d[i].key = k].val

\* d[k] = v: a new key goes last, a key already present keeps its place.
Store(d, k, v) ==
    IF k \in Keys(d)
    THEN [i \in DOMAIN d |-> IF d[i].key = k THEN [key |-> k, val |-> v] ELSE d[i]]
    ELSE Append(d, [key |-> k, val |-> v])

\* ------------------------------------- _fetch_all_parallel_search_max
\* search_max hands ret back: to _fetch_all_parallel, which unpacks it, or
\* to the caller of a direct call, who also keeps the pages_dict it passed.
search_max_returns(ret, pd, log, params) ==
    IF NextCall = "search_max"
    THEN /\ results' = Append(results, Outcome("ok", ret, log, params))
         /\ pc' = "idle"
         /\ pages_dict' = pd
         /\ page' = 0
         /\ iter' = 0
         /\ lower_bound' = 0
         /\ upper_bound' = 0
         /\ UNCHANGED <<sm_ret, walkIdle, poolIdle>>
    ELSE /\ sm_ret' = ret
         /\ pc' = "fap_unpack"
         /\ pages_dict' = pd
         /\ UNCHANGED <<results, page, iter, lower_bound, upper_bound,
                        walkIdle, poolIdle>>

\* The exponential loop stepping by addition: pages 1, 11, 21, ...
next_probe_additive(p) == p + multiplier

\* Line 310: page *= multiplier.  Python's integers are unbounded; the one
\* product beyond the integers of the checker, 10^10 after the tenth probe,
\* is held as the largest of them.  It is never requested, only looked up
\* in pages_dict, where it is no key.
next_probe(p) ==
    IF p <= 2147483647 \div multiplier THEN p * multiplier ELSE 2147483647

\* The lower bound moved onto the candidate instead of above it.
too_low_stays(p) == p

\* The upper bound lowered one page too far.
too_high_skips(p) == p - 2

\* Line 341: the candidate is empty, the upper bound moves below it.
too_high(p) == p - 1

\* Line 344: the candidate has more after it, the lower bound moves above it.
too_low(p) == p + 1

\* The search stepping up from its lower bound instead of halving.
midpoint_is_lower(lo, hi) == lo

\* Line 346: the next candidate.
midpoint(lo, hi) == (lo + hi) \div 2

\* A direct call of _fetch_all_parallel_search_max with an empty pages_dict.
search_max_start ==
    /\ pc = "idle"
    /\ NextCall = "search_max"
    /\ get_params' = ArgParams
    /\ reqLog' = <<>>
    /\ pages_dict' = <<>>
    /\ page' = 1
    /\ iter' = 0
    /\ pc' = "sm_exp"
    /\ UNCHANGED <<fixed, results, lower_bound, upper_bound, sm_ret,
                   walkIdle, poolIdle>>

\* Lines 295-310: one iteration of the exponential loop.
search_max_probe ==
    /\ pc = "sm_exp"
    /\ \E zero \in ZeroPageModes :
         LET gp == fetch_page_params(get_params, <<page>>)
             resp == Respond(backend, gp, zero)
             data == fetch_page_data(resp)
             log == Append(reqLog, LogEntry(gp, <<page>>, "exp", resp))
         IN  /\ reqLog' = log
             /\ get_params' = gp
             /\ IF fetch_page_raises(resp)
                THEN Raises("CRM5APIError", log, gp)
                ELSE /\ pages_dict' = Store(pages_dict, page, data)
                     /\ iter' = iter + 1
                     /\ IF data.paging["has_more"] = FALSE
                        THEN /\ page' = page
                             /\ pc' = "sm_split"
                        ELSE /\ page' = next_probe(page)
                             /\ pc' = IF iter + 1 < probe_iterations
                                      THEN "sm_exp" ELSE "sm_split"
                     /\ UNCHANGED <<results, lower_bound, upper_bound, sm_ret,
                                    walkIdle, poolIdle>>
    /\ UNCHANGED fixed

\* Lines 312-322: after the loop, return the page or set up the bisection.
search_max_split ==
    /\ pc = "sm_split"
    /\ IF page \notin Keys(pages_dict)
       THEN Raises("KeyError", reqLog, get_params)
       ELSE IF Lookup(pages_dict, page).paging["size"] # 0
       THEN search_max_returns(<<page>>, pages_dict, reqLog, get_params)
       ELSE /\ lower_bound' = page \div multiplier
            /\ upper_bound' = page
            /\ page' = page \div 2
            /\ pc' = "sm_bin"
            /\ UNCHANGED <<results, pages_dict, iter, sm_ret, walkIdle, poolIdle>>
    /\ UNCHANGED <<fixed, get_params, reqLog>>

\* Lines 324-346: one iteration of the binary search, the request for the
\* candidate answered by resp.
bisect_step(resp) ==
    LET gp == fetch_page_params(get_params, <<page>>)
        data == fetch_page_data(resp)
        pd == Store(pages_dict, page, data)
        lo == IF data.paging["has_more"] = FALSE THEN lower_bound
              ELSE too_low(page)
        hi == IF data.paging["has_more"] = FALSE THEN too_high(page)
              ELSE upper_bound
        log == Append(reqLog, LogEntry(gp, <<page>>, "bin", resp))
    IN  /\ reqLog' = log
        /\ get_params' = gp
        /\ IF fetch_page_raises(resp)
           THEN Raises("CRM5APIError", log, gp)
           ELSE IF data.paging["has_more"] = FALSE /\ data.paging["size"] # 0
           THEN search_max_returns(<<page, data.paging["size"]>>, pd, log, gp)
           ELSE /\ pages_dict' = pd
                /\ lower_bound' = lo
                /\ upper_bound' = hi
                /\ page' = midpoint(lo, hi)
                /\ UNCHANGED <<results, pc, iter, sm_ret, walkIdle, poolIdle>>

\* The binary search against the frozen backend.
search_max_bisect ==
    /\ pc = "sm_bin"
    /\ lower_bound <= upper_bound
    /\ \E zero \in ZeroPageModes :
         bisect_step(Respond(backend, fetch_page_params(get_params, <<page>>), zero))
    /\ UNCHANGED fixed

\* What a server may answer to a request when nothing is assumed of it: an
\* error status, a null content, or a page with or without an item and with
\* or without more after it.
AnyResponses ==
    {[status |-> 500, content_null |-> FALSE, content |-> <<>>,
      paging |-> [size |-> 0, total |-> None, has_more |-> FALSE]],
     [status |-> 200, content_null |-> TRUE, content |-> <<>>,
      paging |-> [size |-> 0, total |-> None, has_more |-> FALSE]]}
    \cup {[status |-> 200, content_null |-> FALSE, content |-> c,
           paging |-> [size |-> Len(c), total |-> None, has_more |-> h]] :
            c \in {<<>>, <<1>>}, h \in BOOLEAN}

\* The binary search against a server that answers anything.
search_max_bisect_any ==
    /\ pc = "sm_bin"
    /\ lower_bound <= upper_bound
    /\ \E resp \in AnyResponses : bisect_step(resp)
    /\ UNCHANGED fixed

\* Line 348: the bounds crossed.
search_max_not_found ==
    /\ pc = "sm_bin"
    /\ lower_bound > upper_bound
    /\ search_max_returns(<<-1, -1>>, pages_dict, reqLog, get_params)
    /\ UNCHANGED <<fixed, get_params, reqLog>>

\* ------------------------------------------------ _fetch_all_parallel
\* The thread_count argument: None, or an explicit count.
ThreadArgs == {<<>>} \cup {<<n>> : n \in 1..MaxThreads}

\* _fetch_all_parallel submitting page 2 to the pool before it probes.
fetch_all_parallel_start_submitting ==
    /\ pc = "idle"
    /\ NextCall = "fetch_all_parallel"
    /\ \E arg \in ThreadArgs :
         thread_count' = IF arg = <<>> THEN default_thread_count ELSE arg[1]
    /\ get_params' = IF "size" \in DOMAIN ArgParams THEN ArgParams
                     ELSE DictSet(ArgParams, "size", default_page_size)
    /\ reqLog' = <<>>
    /\ req_data' = BlankData
    /\ pages_dict' = <<>>
    /\ page' = 1
    /\ iter' = 0
    /\ pc' = "sm_exp"
    /\ futures' = <<[page_id |-> 2, state |-> "pending", raised |-> FALSE,
                     result |-> BlankData]>>
    /\ UNCHANGED <<fixed, results, curr_page, lower_bound, upper_bound, sm_ret,
                   max_page, last_page_size>>

\* Lines 368-381: the arguments are normalised, then the probe starts.
fetch_all_parallel_start ==
    /\ pc = "idle"
    /\ NextCall = "fetch_all_parallel"
    /\ \E arg \in ThreadArgs :
         thread_count' = IF arg = <<>> THEN default_thread_count ELSE arg[1]
    /\ get_params' = IF "size" \in DOMAIN ArgParams THEN ArgParams
                     ELSE DictSet(ArgParams, "size", default_page_size)
    /\ reqLog' = <<>>
    /\ req_data' = BlankData
    /\ pages_dict' = <<>>
    /\ page' = 1
    /\ iter' = 0
    /\ pc' = "sm_exp"
    /\ UNCHANGED <<fixed, results, curr_page, lower_bound, upper_bound, sm_ret,
                   max_page, last_page_size, futures>>

\* Lines 406-414: the page numbers submitted to the pool, in order.
\* The range of the pages to fetch ending one page early.
pages_to_submit_short(fetched_pages, maxp) ==
    SelectSeq([i \in 1..(maxp - 2) |-> i], LAMBDA x : x \notin fetched_pages)

pages_to_submit(fetched_pages, maxp) ==
    SelectSeq([i \in 1..(maxp - 1) |-> i], LAMBDA x : x \notin fetched_pages)

\* Lines 382-414: unpack the probe's value, drop the pages above max_page,
\* submit the pages still missing.
fetch_all_parallel_submit ==
    /\ pc = "fap_unpack"
    /\ IF Len(sm_ret) # 2
       THEN Raises("TypeError", reqLog, get_params)
       ELSE LET kept == SelectSeq(pages_dict, LAMBDA e : ~(e.key > sm_ret[1]))
            IN  /\ max_page' = sm_ret[1]
                /\ last_page_size' = sm_ret[2]
                /\ pages_dict' = kept
                /\ futures' = [i \in DOMAIN pages_to_submit(Keys(kept), sm_ret[1]) |->
                                 [page_id |-> pages_to_submit(Keys(kept), sm_ret[1])[i],
                                  state |-> "pending",
                                  raised |-> FALSE,
                                  result |-> BlankData]]
                /\ pc' = "pool"
                /\ UNCHANGED <<results, req_data, curr_page, page, iter,
                               lower_bound, upper_bound, sm_ret, thread_count>>
    /\ UNCHANGED <<fixed, get_params, reqLog>>

\* The futures a worker thread is running.
Running == {i \in DOMAIN futures : futures[i].state = "running"}

\* The pool sized by the default instead of the thread_count argument.
pool_sized_by_default == Cardinality(Running) < default_thread_count

\* ThreadPoolExecutor(max_workers=thread_count): a thread is free.
pool_has_free_worker == Cardinality(Running) < thread_count

\* A free worker takes the oldest pending work item and enters
\* self._fetch_page (lines 194-199), which writes its page number into the
\* get_params dict all workers share.
worker_start ==
    /\ pc = "pool"
    /\ pool_has_free_worker
    /\ \E i \in DOMAIN futures :
         /\ futures[i].state = "pending"
         /\ \A j \in 1..(i - 1) : futures[j].state # "pending"
         /\ futures' = [futures EXCEPT ![i].state = "running"]
         /\ get_params' = fetch_page_params(get_params, <<futures[i].page_id>>)
    /\ UNCHANGED <<fixed, results, pc, reqLog, walkIdle, probeIdle, max_page,
                   last_page_size, thread_count>>

\* Lines 201-217 in a worker: the request goes out with whatever the shared
\* dict holds now, and the future completes with (page_id, result) or with
\* the exception.
worker_request(i) ==
    /\ pc = "pool"
    /\ futures[i].state = "running"
    /\ \E zero \in ZeroPageModes :
         LET resp == Respond(backend, get_params, zero)
         IN  /\ reqLog' = Append(reqLog, LogEntry(get_params, <<futures[i].page_id>>,
                                                "pool", resp))
             /\ futures' = [futures EXCEPT
                              ![i].state = "done",
                              ![i].raised = fetch_page_raises(resp),
                              ![i].result = IF fetch_page_raises(resp)
                                            THEN BlankData
                                            ELSE fetch_page_data(resp)]
    /\ UNCHANGED <<fixed, results, pc, get_params, walkIdle, probeIdle,
                   max_page, last_page_size, thread_count>>

\* Lines 416-422: as_completed yields a finished future; its page is stored,
\* its exception only printed.
collect(i) ==
    /\ pc = "pool"
    /\ futures[i].state = "done"
    /\ futures' = [futures EXCEPT ![i].state = "collected"]
    /\ pages_dict' = IF futures[i].raised THEN pages_dict
                     ELSE Store(pages_dict, futures[i].page_id, futures[i].result)
    /\ UNCHANGED <<fixed, results, pc, get_params, reqLog, walkIdle, page, iter,
                   lower_bound, upper_bound, sm_ret, max_page, last_page_size,
                   thread_count>>

\* Lines 424-431: every future was yielded; merge and return.
fetch_all_parallel_merge ==
    /\ pc = "pool"
    /\ \A i \in DOMAIN futures : futures[i].state = "collected"
    /\ Returns([content |-> req_data.content \o
                     Concat([i \in DOMAIN pages_dict |-> pages_dict[i].val.content]),
                paging |-> [pages |-> max_page,
                            total |-> (max_page * get_params["size"]) + last_page_size]],
               reqLog, get_params)
    /\ UNCHANGED <<fixed, get_params, reqLog>>

\* ------------------------------------------------------ specification
\* The frozen backends of the aggregation specification.
Backends ==
    [items : 0..MaxItems, maxSize : 1..MaxSize,
     total : {"absent", "exact", "stale"},
     failing : {{}} \cup {{k} : k \in 1..MaxFailPage}, nulls : {{}}]
    \cup [items : 0..MaxItems, maxSize : 1..MaxSize,
          total : {"absent", "exact", "stale"},
          failing : {{}}, nulls : {{k} : k \in 1..MaxFailPage}]

\* The caller's query mapping: None, or a dict naming the page size.
ParamArgs == {<<>>} \cup {<<[size |-> s]>> : s \in 1..MaxSize}

\* What the caller runs: two sequential walks, or a walk and a parallel fetch.
Scripts == {<<"fetch_all", "fetch_all">>, <<"fetch_all", "fetch_all_parallel">>}

InitLocals ==
    /\ results = <<>>
    /\ pc = "idle"
    /\ get_params = EmptyDict
    /\ reqLog = <<>>
    /\ req_data = BlankData
    /\ curr_page = 0
    /\ pages_dict = <<>>
    /\ page = 0
    /\ iter = 0
    /\ lower_bound = 0
    /\ upper_bound = 0
    /\ sm_ret = <<>>
    /\ max_page = 0
    /\ last_page_size = 0
    /\ thread_count = 0
    /\ futures = <<>>

Init ==
    /\ backend \in Backends
    /\ search_params \in ParamArgs
    /\ script \in Scripts
    /\ InitLocals

Next ==
    \/ fetch_all_first
    \/ fetch_all_next
    \/ fetch_all_parallel_start
    \/ search_max_probe
    \/ search_max_split
    \/ search_max_bisect
    \/ search_max_not_found
    \/ fetch_all_parallel_submit
    \/ worker_start
    \/ \E i \in DOMAIN futures : worker_request(i)
    \/ \E i \in DOMAIN futures : collect(i)
    \/ fetch_all_parallel_merge

Spec == Init /\ [][Next]_vars

\* The backend that has more after every page a call can reach.
DeepBackend ==
    [items |-> DeepItems, maxSize |-> 1, total |-> "exact",
     failing |-> {}, nulls |-> {}]

\* The bounds probe called on its own, on backends large enough for the
\* exponential phase to pass pages 10, 100 and 1000, and on one too deep for
\* it to reach the end.
ProbeBackends ==
    [items : 0..MaxProbeItems, maxSize : {1, ProbeSize},
     total : {"exact"}, failing : {{}}, nulls : {{}}]
    \cup {DeepBackend}

InitSearchMax ==
    /\ backend \in ProbeBackends
    /\ search_params = <<>>
    /\ script = <<"search_max">>
    /\ InitLocals

NextSearchMax ==
    \/ search_max_start
    \/ search_max_probe
    \/ search_max_split
    \/ search_max_bisect
    \/ search_max_not_found

SpecSearchMax == InitSearchMax /\ [][NextSearchMax]_vars

\* A walk and a parallel fetch on backends of a few pages of ProbeSize items,
\* the caller leaving the size to the default or asking for ProbeSize.
PagedBackends ==
    [items : 0..MaxPagedItems, maxSize : {ProbeSize},
     total : {"absent", "exact", "stale"}, failing : {{}}, nulls : {{}}]

InitPaged ==
    /\ backend \in PagedBackends
    /\ search_params \in {<<>>, <<[size |-> ProbeSize]>>}
    /\ script = <<"fetch_all", "fetch_all_parallel">>
    /\ InitLocals

SpecPaged == InitPaged /\ [][Next]_vars

\* _fetch_all called once, on the backends of the aggregation specification
\* and on the deep backend.  The calling thread keeps running: a step of the
\* walk that can be taken is taken.
InitWalk ==
    /\ backend \in Backends \cup {DeepBackend}
    /\ search_params \in ParamArgs
    /\ script = <<"fetch_all">>
    /\ InitLocals

NextWalk ==
    \/ fetch_all_first
    \/ fetch_all_next

SpecWalk ==
    InitWalk /\ [][NextWalk]_vars /\ WF_vars(fetch_all_first) /\ WF_vars(fetch_all_next)

\* The bounds probe called on its own, its exponential phase answered by a
\* frozen backend of pages of 1 item and its binary search by a server that
\* answers anything.  The calling thread keeps running.
InitBisect ==
    /\ backend \in [items : 0..MaxBisectItems, maxSize : {1}, total : {"exact"},
                     failing : {{}}, nulls : {{}}]
    /\ search_params = <<>>
    /\ script = <<"search_max">>
    /\ InitLocals

NextBisect ==
    \/ search_max_start
    \/ search_max_probe
    \/ search_max_split
    \/ search_max_bisect_any
    \/ search_max_not_found

SpecBisect == InitBisect /\ [][NextBisect]_vars /\ WF_vars(NextBisect)

\* ------------------------------------------------------------ claims
Last(seq) == seq[Len(seq)]

RECURSIVE AscendingConcat(_)
\* The items of the pages of d, taken in ascending order of page number.
AscendingConcat(d) ==
    IF d = <<>> THEN <<>>
    ELSE LET k == CHOOSE x \in Keys(d) : \A y \in Keys(d) : x <= y
         IN  Lookup(d, k).content \o AscendingConcat(SelectSeq(d, LAMBDA e : e.key # k))

\* The finished calls of one kind.
CallsOf(kind) == {i \in DOMAIN results : script[i] = kind}

\* C1: when _fetch_all_parallel returns, its content is the items of the
\* pages in its results map concatenated in ascending page-number order,
\* whatever order the probe and the workers filled the map in.
C1_AscendingAssembly ==
    [][(pc = "pool" /\ pc' = "idle")
        => Last(results').data.content = AscendingConcat(pages_dict)]_vars

\* C2: on a backend where no page fails, _fetch_all and _fetch_all_parallel
\* both return, and with the same content in the same order.
C2_SequentialParallelAgree ==
    (script = <<"fetch_all", "fetch_all_parallel">> /\ Len(results) = 2
        /\ backend.failing = {})
    => /\ results[1].status = "ok"
       /\ results[2].status = "ok"
       /\ results[1].data.content = results[2].data.content

\* C3: every result _fetch_all returns has paging.total = len(content).
C3_SequentialTotal ==
    \A i \in CallsOf("fetch_all") :
        results[i].status = "ok"
        => results[i].data.paging["total"] = Len(results[i].data.content)

\* C4: every result _fetch_all_parallel returns has paging.total =
\* len(content).
C4_ParallelTotal ==
    \A i \in CallsOf("fetch_all_parallel") :
        results[i].status = "ok"
        => results[i].data.paging["total"] = Len(results[i].data.content)

\* C5: a _fetch_all_parallel call in which a worker-pool fetch failed ends
\* in an error, not in a result.
C5_PoolFailureFailsCall ==
    \A i \in CallsOf("fetch_all_parallel") :
        (\E k \in DOMAIN results[i].log :
            results[i].log[k].by = "pool" /\ ~results[i].log[k].ok)
        => results[i].status # "ok"

\* C6: in _fetch_all a failed page fetch is the last request of the call,
\* and the call ends in CRM5APIError with no value returned; a walk still
\* running has seen no failure.
C6_WalkAbortsOnFailure ==
    /\ pc = "fa_loop" => \A k \in DOMAIN reqLog : reqLog[k].ok
    /\ \A i \in CallsOf("fetch_all") :
         \A k \in DOMAIN results[i].log :
            ~results[i].log[k].ok
            => /\ k = Len(results[i].log)
               /\ results[i].status = "CRM5APIError"
               /\ results[i].data = BlankData

\* C6 witness: a walk that had fetched pages raised on a later page.
C6_Witness ==
    \E i \in CallsOf("fetch_all") :
        /\ results[i].status = "CRM5APIError"
        /\ Len(results[i].log) >= 2
        /\ ~Last(results[i].log).ok

\* C7: during one call no page number is requested from the backend twice.
C7_NoPageFetchedTwice ==
    \A j, k \in DOMAIN reqLog :
        j < k => ServedPage(reqLog[j].params) # ServedPage(reqLog[k].params)

\* C8: the request a worker sends carries the page number the worker was
\* dispatched for, and the page stored under key p is the backend's page p.
C8_WorkerRequestsOwnPage ==
    /\ \A k \in DOMAIN reqLog :
         reqLog[k].by = "pool" => reqLog[k].params["page"] = reqLog[k].page_num[1]
    /\ pc = "pool" =>
         \A i \in DOMAIN pages_dict :
            pages_dict[i].val.content =
                PageItems(backend.items, ServedSize(backend, get_params),
                          pages_dict[i].key)

\* C9: when the probe returned the -1 sentinel, what _fetch_all_parallel
\* returns has the content and total _fetch_all returned on the same
\* backend, and neither its page count nor its total is negative.
C9_FallbackOnProbeFailure ==
    [][(pc = "pool" /\ pc' = "idle" /\ sm_ret = <<-1, -1>>
            /\ script[1] = "fetch_all" /\ results[1].status = "ok")
        => /\ Last(results').data.content = results[1].data.content
           /\ Last(results').data.paging["total"] = results[1].data.paging["total"]
           /\ Last(results').data.paging["pages"] >= 0
           /\ Last(results').data.paging["total"] >= 0]_vars

\* The pages the probe requested in the current call.
ProbedPages ==
    {reqLog[k].params["page"] : k \in {j \in DOMAIN reqLog : reqLog[j].by \in {"exp", "bin"}}}

\* C10: while the pool runs, at most thread_count fetches are in flight, and
\* the pages submitted are exactly those of 1..max_page-1 the probe did not
\* fetch.
C10_PoolBoundedAndComplete ==
    pc = "pool" =>
        /\ Cardinality(Running) <= thread_count
        /\ {futures[i].page_id : i \in DOMAIN futures}
             = {p \in 1..(max_page - 1) : p \notin ProbedPages}

\* C10 witness: the pool is full and a submitted page waits for a worker.
C10_Witness ==
    /\ pc = "pool"
    /\ Cardinality(Running) = thread_count
    /\ \E i \in DOMAIN futures : futures[i].state = "pending"
    /\ \E i \in DOMAIN futures : futures[i].state = "done"

\* The mapping the caller handed to call i, as it was when the call began:
\* the caller's own dict, which is the one the call before left behind.
ParamsBefore(i) == IF i = 1 THEN search_params[1] ELSE results[i - 1].params

\* C11: when a call given a query mapping returns or raises, the mapping
\* has exactly the keys and values it had when the call began.
C11_TemplateUntouched ==
    search_params # <<>>
    => \A i \in DOMAIN results : results[i].params = ParamsBefore(i)

\* C12: on the backend of 24 items served in pages of 10 (10, 10 and 4
\* items), _fetch_all returns the 24 items with paging.total = 24, and
\* _fetch_all_parallel run with thread_count = 2 returns the same 24 items
\* in the same order, whatever the workers' interleaving.
C12_ThreePageScenario ==
    (backend.items = 24 /\ backend.maxSize = 10)
    => /\ Len(results) >= 1
          => /\ results[1].status = "ok"
             /\ results[1].data.content = [k \in 1..24 |-> k]
             /\ results[1].data.paging["total"] = 24
             /\ Len(results[1].log) = 3
       /\ (Len(results) = 2 /\ results[2].thread_count = 2)
          => /\ results[2].status = "ok"
             /\ results[2].data.content = results[1].data.content

\* C12 witness: both calls of the scenario have returned, the parallel one
\* run with two threads.
C12_Witness ==
    /\ backend.items = 24
    /\ backend.maxSize = 10
    /\ Len(results) = 2
    /\ results[2].thread_count = 2
    /\ results[2].status = "ok"
    /\ Len(results[2].data.content) = 24

\* C13: on a backend that never declares paging.total, a _fetch_all call
\* that ended after its first response (has_more false) returns a
\* paging.total that is present and equals the number of items returned.
C13_TotalDefaultsToCount ==
    \A i \in CallsOf("fetch_all") :
        (backend.total = "absent" /\ results[i].status = "ok"
            /\ Len(results[i].log) = 1)
        => /\ "total" \in DOMAIN results[i].data.paging
           /\ results[i].data.paging["total"] # None
           /\ results[i].data.paging["total"] = Len(results[i].data.content)

\* C13 witness: a single-page walk returned a partly filled page from a
\* backend that declares no total.
C13_Witness ==
    /\ backend.total = "absent"
    /\ backend.items = 1
    /\ backend.maxSize = 2
    /\ Len(results) >= 1
    /\ results[1].status = "ok"
    /\ Len(results[1].log) = 1
    /\ Len(results[1].data.content) = 1

\* The last populated page of the backend when it serves the query params.
LastPopulated(params) ==
    (backend.items + ServedSize(backend, params) - 1) \div ServedSize(backend, params)

\* C14: on the backend whose last populated page is 37 with pages of 10,
\* _fetch_all_parallel_search_max sends at most 10 + ceil(log2(10)) = 14
\* page requests and returns last page 37.
C14_Page37WithinBudget ==
    /\ (backend.maxSize = 10 /\ backend.items \in 361..370)
       => Len(reqLog) <= probe_iterations + 4
    /\ \A i \in CallsOf("search_max") :
         (backend.maxSize = 10 /\ LastPopulated(results[i].params) = 37)
         => /\ results[i].status = "ok"
            /\ results[i].data[1] = 37
            /\ Len(results[i].log) <= probe_iterations + 4

\* C14 witness: the probe has returned on a backend of 37 pages of 10, the
\* last one partly filled, after an exponential and a binary phase.
C14_Witness ==
    /\ backend.maxSize = 10
    /\ backend.items = 364
    /\ Len(results) = 1
    /\ results[1].status = "ok"
    /\ results[1].data = <<37, 4>>
    /\ \E k \in DOMAIN results[1].log : results[1].log[k].by = "bin"

\* C15: on a backend whose page 1 is empty, the binary search of
\* _fetch_all_parallel_search_max never holds a lower bound, an upper bound
\* or a candidate page below 1 while it may still request the candidate,
\* and the call reports not-found or last page 1 with zero items.
C15_EmptyFirstPage ==
    backend.items = 0
    => /\ (pc = "sm_bin" /\ lower_bound <= upper_bound)
          => (lower_bound >= 1 /\ upper_bound >= 1 /\ page >= 1)
       /\ \A i \in CallsOf("search_max") :
            /\ results[i].status = "ok"
            /\ results[i].data \in {<<-1, -1>>, <<1, 0>>}

\* C16: every request that names a page names one that is at least 1.
C16_PagesStartAtOne ==
    \A k \in DOMAIN reqLog :
        "page" \in DOMAIN reqLog[k].params => reqLog[k].params["page"] >= 1

\* The pages the exponential phase requests at most: 1, 10, ..., 10^9.
ProbeBoundaries == {multiplier ^ k : k \in 0..(probe_iterations - 1)}

\* The exponential phase overshoots the last populated page: it stops on an
\* empty page, so a binary search follows.
Overshoots(params) ==
    /\ LastPopulated(params) >= 1
    /\ LastPopulated(params) \notin ProbeBoundaries
    /\ LastPopulated(params) < multiplier ^ (probe_iterations - 1)

\* C17: where the exponential phase overshoots the last populated page L,
\* the binary search keeps lower_bound <= L <= upper_bound and its candidate
\* within [lower_bound, upper_bound], and the call returns L together with
\* the item count of page L.
C17_BisectionFindsLastPage ==
    /\ (pc = "sm_bin" /\ Overshoots(get_params))
       => /\ lower_bound <= LastPopulated(get_params)
          /\ LastPopulated(get_params) <= upper_bound
          /\ lower_bound <= page
          /\ page <= upper_bound
    /\ \A i \in CallsOf("search_max") :
         Overshoots(results[i].params)
         => /\ results[i].status = "ok"
            /\ results[i].data =
                 <<LastPopulated(results[i].params),
                   ItemCount(backend.items, ServedSize(backend, results[i].params),
                             LastPopulated(results[i].params))>>

\* C17 witness: the probe went past page 100 to the empty page 1000 and the
\* binary search came back to the last populated page.
C17_Witness ==
    /\ backend.items = 101
    /\ backend.maxSize = 1
    /\ Len(results) = 1
    /\ results[1].status = "ok"
    /\ results[1].data = <<101, 1>>
    /\ Cardinality({k \in DOMAIN results[1].log : results[1].log[k].by = "bin"}) >= 3

\* C18: when the exponential phase stopped on a non-empty page, what the
\* probe hands to _fetch_all_parallel is a (last page, last page size) pair
\* naming that page and its item count, and _fetch_all_parallel ends with a
\* result.
C18_BoundaryPageSameShape ==
    /\ (pc = "fap_unpack" /\ \A k \in DOMAIN reqLog : reqLog[k].by = "exp")
       => /\ Len(sm_ret) = 2
          /\ sm_ret[1] = Last(reqLog).params["page"]
          /\ sm_ret[2] = Len(PageItems(backend.items,
                                       ServedSize(backend, get_params), sm_ret[1]))
    /\ \A i \in CallsOf("fetch_all_parallel") :
         (/\ results[i].log # <<>>
          /\ \A k \in DOMAIN results[i].log :
                results[i].log[k].by = "exp" /\ results[i].log[k].ok)
         => results[i].status = "ok"

\* C19: a call of _fetch_all_parallel_search_max whose ten exponential
\* probes all reported has_more true returns the not-found value (-1, -1):
\* it ends in no error.
C19_ExhaustedProbeNotFound ==
    \A i \in CallsOf("search_max") :
        (/\ Len(results[i].log) = probe_iterations
         /\ \A k \in DOMAIN results[i].log :
               /\ results[i].log[k].by = "exp"
               /\ results[i].log[k].ok
               /\ ServedPage(results[i].log[k].params)
                    * ServedSize(backend, results[i].log[k].params) < backend.items)
        => /\ results[i].status = "ok"
           /\ results[i].data = <<-1, -1>>

\* The backend's has_more for a logged request.
HadMore(entry) ==
    ServedPage(entry.params) * ServedSize(backend, entry.params) < backend.items

\* C20: during and at the end of the exponential phase the requests sent
\* are pages 10^0, 10^1, ... in that order, at most ten of them, each
\* recorded in pages_dict; every request but the last had has_more true, and
\* the phase is over exactly when the last one had has_more false or ten
\* requests were sent.
C20_ExponentialPhase ==
    pc \in {"sm_exp", "sm_split"}
    => /\ Len(reqLog) <= probe_iterations
       /\ \A j \in DOMAIN reqLog :
            /\ reqLog[j].by = "exp"
            /\ reqLog[j].page_num = <<multiplier ^ (j - 1)>>
            /\ reqLog[j].params["page"] = multiplier ^ (j - 1)
            /\ reqLog[j].params["page"] \in Keys(pages_dict)
            /\ j < Len(reqLog) => HadMore(reqLog[j])
       /\ pc = "sm_exp"
          => /\ Len(reqLog) < probe_iterations
             /\ reqLog # <<>> => HadMore(Last(reqLog))
       /\ pc = "sm_split"
          => /\ reqLog # <<>>
             /\ ~HadMore(Last(reqLog)) \/ Len(reqLog) = probe_iterations

\* C20 witness: the exponential phase ended after pages 1, 10, 100, the last
\* of which had no more after it.
C20_Witness ==
    /\ pc = "sm_split"
    /\ Len(reqLog) = 3
    /\ ~HadMore(Last(reqLog))
    /\ Keys(pages_dict) = {1, 10, 100}

\* C21: the requests of a _fetch_all call are for pages 1, 2, 3, ... in
\* that order; a call that returned stopped at the first page k without
\* more after it, its content is the items of pages 1..k in that order, and
\* for k >= 2 it reports pages = k.
C21_WalkInPageOrder ==
    /\ pc = "fa_loop"
       => \A j \in DOMAIN reqLog : ServedPage(reqLog[j].params) = j
    /\ \A i \in CallsOf("fetch_all") :
         /\ \A j \in DOMAIN results[i].log :
               /\ ServedPage(results[i].log[j].params) = j
               /\ j < Len(results[i].log) => HadMore(results[i].log[j])
         /\ results[i].status = "ok"
            => LET k == Len(results[i].log)
                   s == ServedSize(backend, Last(results[i].log).params)
               IN  /\ ~HadMore(Last(results[i].log))
                   /\ results[i].data.content
                        = Concat([j \in 1..k |-> PageItems(backend.items, s, j)])
                   /\ k >= 2 => results[i].data.paging["pages"] = k

\* The paging.size of the backend's answer to a logged request.
ReportedSize(entry) ==
    ItemCount(backend.items, ServedSize(backend, entry.params),
              ServedPage(entry.params))

\* C22: in a _fetch_all call whose first response had more after it, every
\* later request carries the size that first response reported.
C22_LaterRequestsPinSize ==
    /\ pc = "fa_loop"
       => \A j \in 2..Len(reqLog) :
             reqLog[j].params["size"] = ReportedSize(reqLog[1])
    /\ \A i \in CallsOf("fetch_all") :
         \A j \in 2..Len(results[i].log) :
            results[i].log[j].params["size"] = ReportedSize(results[i].log[1])

\* C22 witness: the caller asked for pages of 2, the server served pages of
\* 1, and the walk went on to page 3 asking for pages of 1.
C22_Witness ==
    /\ search_params = <<[size |-> 2]>>
    /\ backend.maxSize = 1
    /\ Len(results) >= 1
    /\ results[1].status = "ok"
    /\ Len(results[1].log) >= 3
    /\ results[1].log[1].params["size"] = 2
    /\ results[1].log[3].params["size"] = 1

\* The positions of the main thread inside the probe, up to the unpacking of
\* what it returned.
ProbePhase == {"sm_exp", "sm_split", "sm_bin", "fap_unpack"}

\* No probe request follows a pool request in a request log.
ProbeBeforePool(log) ==
    \A j, k \in DOMAIN log :
        (j < k /\ log[j].by = "pool") => log[k].by = "pool"

\* C23: in _fetch_all_parallel no fetch is submitted to the pool while the
\* probe runs, the pool works only once the probe has returned its pair, and
\* every probe request was sent before the first pool request.
C23_ProbeBeforePool ==
    /\ pc \in ProbePhase => futures = <<>>
    /\ pc = "pool" => Len(sm_ret) = 2
    /\ ProbeBeforePool(reqLog)
    /\ \A i \in CallsOf("fetch_all_parallel") : ProbeBeforePool(results[i].log)

\* C23 witness: a pool request has been sent after a probe that went through
\* both of its phases.
C23_Witness ==
    /\ pc = "pool"
    /\ \E k \in DOMAIN reqLog : reqLog[k].by = "bin"
    /\ Last(reqLog).by = "pool"

\* The pool has nothing left to do: the merge is next.
AtAssembly == pc = "pool" /\ \A i \in DOMAIN futures : futures[i].state = "collected"

\* C25: at assembly time, when the probe found last page L >= 1 by binary
\* search and no worker fetch failed, the keys of pages_dict are exactly
\* 1..L: the probed pages up to L, none of which went to the pool, and the
\* pages the workers fetched; no probed page above L is left.
C25_KeysAtAssembly ==
    (/\ AtAssembly
     /\ max_page >= 1
     /\ \E k \in DOMAIN reqLog : reqLog[k].by = "bin"
     /\ \A i \in DOMAIN futures : ~futures[i].raised)
    => /\ Keys(pages_dict) = 1..max_page
       /\ Len(pages_dict) = max_page
       /\ {p \in ProbedPages : p <= max_page} \subseteq Keys(pages_dict)
       /\ \A i \in DOMAIN futures : futures[i].page_id \notin ProbedPages
       /\ Keys(pages_dict) =
            {p \in ProbedPages : p <= max_page}
            \cup {futures[i].page_id : i \in DOMAIN futures}

\* C25 witness: the probe found page 6 after fetching pages 1, 10, 5, 8, 6,
\* and the workers fetched pages 2, 3 and 4.
C25_Witness ==
    /\ AtAssembly
    /\ max_page = 6
    /\ ProbedPages = {1, 10, 5, 8, 6}
    /\ {futures[i].page_id : i \in DOMAIN futures} = {2, 3, 4}
    /\ \A i \in DOMAIN futures : ~futures[i].raised
    /\ Keys(pages_dict) = 1..6

\* C24: on a backend with a page that has no more after it the _fetch_all
\* call ends, with a result or an error; a call that returned a result had
\* has_more false in its last response; and on the backend that always has
\* more the call does not end on any page, however far the walk is followed.
C24_WalkEndsOnlyOnLastPage ==
    /\ (backend # DeepBackend) ~> (Len(results) = 1)
    /\ [](\A i \in DOMAIN results :
            results[i].status = "ok" => ~HadMore(Last(results[i].log)))
    /\ [](backend = DeepBackend => results = <<>>)

\* C24 witness: on the deep backend the walk is still running after
\* MaxWalkPage requests.
C24_Witness ==
    /\ backend = DeepBackend
    /\ pc = "fa_loop"
    /\ Len(reqLog) = MaxWalkPage
    /\ Len(req_data.content) = MaxWalkPage
    /\ results = <<>>

\* The page the exponential phase of a request log stopped on.
StopPage(log) ==
    LET e == {k \in DOMAIN log : log[k].by = "exp"}
    IN  log[CHOOSE k \in e : \A j \in e : j <= k].params["page"]

\* upper_bound - lower_bound of the interval the binary search starts on
\* (lines 319-320).
InitialWidth(log) == StopPage(log) - StopPage(log) \div multiplier

\* The binary-search requests of a request log.
BinRequests(log) == Cardinality({k \in DOMAIN log : log[k].by = "bin"})

\* An iteration of the binary search that does not end the call makes
\* upper_bound - lower_bound smaller.
BisectionShrinks ==
    [][(pc = "sm_bin" /\ pc' = "sm_bin")
        => upper_bound' - lower_bound' < upper_bound - lower_bound]_vars

\* A call that has entered the binary search ends.
BisectionEnds == (pc = "sm_bin") ~> (pc = "idle")

C27_RepeatedWalkSameContent ==
    (/\ script = <<"fetch_all", "fetch_all">>
     /\ search_params # <<>>
     /\ Len(results) = 2
     /\ results[1].status = "ok")
    => /\ results[2].status = "ok"
       /\ results[2].data.content = results[1].data.content
       /\ ServedPage(results[2].log[1].params) = 1

\* The response to a logged request was not a page: the status was not 200,
\* or the content was null.
NoPage(entry) == ~entry.ok \/ entry.content_null

\* C28: a fetch whose response had a status other than 200 or a null
\* content gives no page.  In the calling thread it is the last request of
\* the call, which ends in CRM5APIError without a value; in the pool the
\* worker's future raised and nothing is stored under its page.
C28_NoPageFromBadResponse ==
    /\ pc # "idle"
       => \A k \in DOMAIN reqLog : NoPage(reqLog[k]) => reqLog[k].by = "pool"
    /\ \A i \in DOMAIN results :
         \A k \in DOMAIN results[i].log :
            (NoPage(results[i].log[k]) /\ results[i].log[k].by # "pool")
            => /\ k = Len(results[i].log)
               /\ results[i].status = "CRM5APIError"
               /\ results[i].data = BlankData
    /\ \A i \in DOMAIN futures :
         \A k \in DOMAIN reqLog :
            (/\ reqLog[k].by = "pool"
             /\ reqLog[k].page_num = <<futures[i].page_id>>
             /\ NoPage(reqLog[k]))
            => /\ futures[i].raised
               /\ futures[i].result = BlankData
               /\ futures[i].page_id \notin Keys(pages_dict)

\* C28 witness: a walk that had fetched a page got a null content for the
\* next one and ended in CRM5APIError.
C28_Witness ==
    \E i \in CallsOf("fetch_all") :
        /\ results[i].status = "CRM5APIError"
        /\ Len(results[i].log) >= 2
        /\ Last(results[i].log).ok
        /\ Last(results[i].log).content_null

====
